---- MODULE Spec2Model ----
(***************************************************************************)
(* Listing reconciliation of scraper.py: process_profile combines the      *)
(* crawl passes of one profile, main concatenates the profiles' frames,    *)
(* merges them with the persisted store data/sits.json, writes the store   *)
(* back and selects the alert batch of every profile.                      *)
(*                                                                         *)
(* A table (pandas DataFrame) is a sequence of records.  unique_key, the   *)
(* string listing_id + "|" + date_range, is the pair                       *)
(* <<listing_id, date_range>>; its string order is the order KeyLess.      *)
(* A timestamp is a number; the clock advances by 2 per run so that        *)
(* "one second before now" lies strictly between two runs.                 *)
(*                                                                         *)
(* The pure functions (listing_id_from_url, the combiner of process_profile,*)
(* apply_profile_filters, escape_markdown, split_location, normalize_pet,  *)
(* format_telegram_message and the alert loop with send_telegram_message)  *)
(* are checked under specifications of their own, SpecUrl, SpecCombine,    *)
(* SpecFilter, SpecEscape, SpecSplit, SpecPet, SpecFormat and SpecSend: the *)
(* initial state draws the arguments fin of one call, the action applies   *)
(* the function and stores its value in fout.  There a text is a sequence  *)
(* of characters.  SpecNotify is main with the write of the store and the  *)
(* alert loop as two steps.                                                *)
(***************************************************************************)
EXTENDS Integers, Sequences, FiniteSets, TLC

\* ---- bounds of the model ------------------------------------------------
MaxId == 2          \* listing ids 1..MaxId
MaxDateRange == 1   \* date ranges 1..MaxDateRange
MaxRows == 2        \* rows a baseline pass returns at most
MaxRuns == 2        \* runs of main
MaxWindow == 2      \* date ranges one listing is offered under

Ids == 1..MaxId
DateRanges == 1..MaxDateRange
Keys == Ids \X DateRanges
Windows == 1..MaxWindow

\* ---- configuration ------------------------------------------------------
\* the profiles of filter_profiles.json, in the order profiles.items() yields
ProfileOrder == <<"A", "B">>
Profiles == {ProfileOrder[i] : i \in 1..Len(ProfileOrder)}

\* the pet columns of a row (PET_TYPES); the model carries two of the ten,
\* and the rows of a crawl carry the dog count only
PET_TYPES == {"dog", "cat"}

\* profile_config["filters"] of each profile; no profile sets min_days
ProfileFilters ==
  [p \in Profiles |->
     IF p = "A" THEN [excluded_countries |-> {}, max_pets |-> [t \in {} |-> 0]]
                ELSE [excluded_countries |-> {"c2"}, max_pets |-> [t \in {"dog"} |-> 1]]]

\* a missing value of a table cell (NaN / null) in a text column
NaN == "NaN"
\* a missing value of a timestamp column
NaT == -1

\* ---- state --------------------------------------------------------------
VARIABLES
  store,      \* data/sits.json: [status, missing_cols, rows]
  clock,      \* the wall clock, datetime.now()
  runs,       \* number of runs of main finished
  pc,         \* position of main: "crawl" (profile loop), "notify" (the
              \* store is written, the alert loop is next) or "done"
  idx,        \* index in ProfileOrder of the next profile to process
  results,    \* main's list `results`, one entry per processed profile
  prevStore,  \* the store as it was when the last finished run started
  base_df,    \* the combined snapshot of the last finished run
  now,        \* the timestamp `now` of the last finished run
  outcome,    \* how the last run ended: none / empty / crashed / written
  alerts,     \* per profile, the rows handed to the notifier by the last run
  scope,      \* what the site lists: "listings" (several ids) or "windows"
              \* (one listing under several date ranges)
  fin,        \* the arguments of a call of a pure function
  fout,       \* the value the call returned
  called,     \* the call has returned
  posts       \* the requests the last notification loop made, with their
              \* outcomes

vars == <<store, clock, runs, pc, idx, results, prevStore, base_df, now, outcome, alerts,
          scope, fin, fout, called, posts>>

\* what a run of main leaves alone
pure == <<scope, fin, fout, called>>

\* ---- sequence helpers (table operations) --------------------------------
\* the column unique_key of a table, as a sequence
KeyCol(df) == [i \in 1..Len(df) |-> df[i].unique_key]
KeySet(df) == {df[i].unique_key : i \in 1..Len(df)}

\* string order of unique_key
KeyLess(a, b) == a[1] < b[1] \/ (a[1] = b[1] /\ a[2] < b[2])

\* the keys of S in increasing order
SortedKeys(S) ==
  CHOOSE s \in [1..Cardinality(S) -> S] :
    \A a, b \in 1..Cardinality(S) : a < b => KeyLess(s[a], s[b])

\* positions of the rows of df that carry key k, increasing
RECURSIVE PositionsFrom(_, _, _)
PositionsFrom(df, k, i) ==
  IF i > Len(df) THEN <<>>
  ELSE IF df[i].unique_key = k THEN <<i>> \o PositionsFrom(df, k, i + 1)
       ELSE PositionsFrom(df, k, i + 1)
Positions(df, k) == PositionsFrom(df, k, 1)

\* ---- process_profile: the multi-pass combiner ---------------------------
\* the listings the search of a profile can return (profile_config["search"]):
\* the two profiles overlap on listing 1
Region == [p \in Profiles |-> IF p = "A" THEN Ids ELSE {1}]

\* rows a baseline pass returns at most, per profile
RowCap == [p \in Profiles |-> IF p = "A" THEN MaxRows ELSE 1]

\* rows a crawl pass (scrape_run) can return for a profile; the content of
\* listing 1 varies between passes, the other listings are static.  When the
\* site offers listing 1 under several date ranges (scope "windows") every
\* profile finds it under each of them.
RawRows(p) ==
  IF scope = "windows"
  THEN [listing_id : {1}, date_range : Windows, title : {"t1"},
        country : {"c1"}, reviewing : {FALSE}, dog : {0}]
  ELSE {r \in [listing_id : Region[p], date_range : DateRanges, title : {"t1"},
               country : {"c1"}, reviewing : BOOLEAN, dog : {0}] :
          r.reviewing => r.listing_id = 1}

\* outputs of the baseline pass of a profile
Baselines(p) == UNION {[1..n -> RawRows(p)] : n \in 0..RowCap[p]}

\* listing ids returned by the public_transport pass and the car_included pass
AuxPasses == {<<{1}, {}>>, <<{}, {1}>>}

\* a combiner whose unique_key leaves the date range out
Combine_KeyById(profile_name, baseline, public_transport_ids, car_included_ids) ==
  [i \in 1..Len(baseline) |->
     [unique_key       |-> <<baseline[i].listing_id, 1>>,
      listing_id       |-> baseline[i].listing_id,
      date_range       |-> baseline[i].date_range,
      title            |-> baseline[i].title,
      country          |-> baseline[i].country,
      reviewing        |-> baseline[i].reviewing,
      dog              |-> baseline[i].dog,
      public_transport |-> baseline[i].listing_id \in public_transport_ids,
      car_included     |-> baseline[i].listing_id \in car_included_ids,
      profile          |-> profile_name]]

\* base_df of process_profile: the baseline rows with the two auxiliary
\* booleans (listing_id in the ids of the auxiliary pass), unique_key and
\* profile; empty when the baseline is empty
Combine(profile_name, baseline, public_transport_ids, car_included_ids) ==
  [i \in 1..Len(baseline) |->
     [unique_key       |-> <<baseline[i].listing_id, baseline[i].date_range>>,
      listing_id       |-> baseline[i].listing_id,
      date_range       |-> baseline[i].date_range,
      title            |-> baseline[i].title,
      country          |-> baseline[i].country,
      reviewing        |-> baseline[i].reviewing,
      dog              |-> baseline[i].dog,
      public_transport |-> baseline[i].listing_id \in public_transport_ids,
      car_included     |-> baseline[i].listing_id \in car_included_ids,
      profile          |-> profile_name]]

\* one iteration of main's profile loop: process_profile(profile_name) runs
\* the three modes (a mode that fails returns no rows) and combines them, or
\* raises, in which case main records the exception in place of a frame
ProcessProfile ==
  /\ pc = "crawl"
  /\ idx <= Len(ProfileOrder)
  /\ \/ \E baseline \in Baselines(ProfileOrder[idx]), aux \in AuxPasses :
          results' = Append(results,
                       [ok |-> TRUE,
                        frame |-> Combine(ProfileOrder[idx], baseline, aux[1], aux[2])])
     \/ results' = Append(results, [ok |-> FALSE, frame |-> <<>>])
  /\ idx' = idx + 1
  /\ UNCHANGED <<store, clock, runs, pc, prevStore, base_df, now, outcome, alerts>>
  /\ UNCHANGED pure
  /\ UNCHANGED posts

\* ---- main: load, merge, save --------------------------------------------
\* all_results concatenated: the non-empty frames in profile order
RECURSIVE ConcatFrames(_)
ConcatFrames(rs) ==
  IF rs = <<>> THEN <<>>
  ELSE (IF Head(rs).ok THEN Head(rs).frame ELSE <<>>) \o ConcatFrames(Tail(rs))

\* old_df as main loads it: the rows of a readable store, else an empty table
LoadOld(st) == IF st.status = "ok" THEN st.rows ELSE <<>>

\* the columns old_df lacks: those the store file lacks, every column when
\* old_df is the empty table
MissingCols(st) ==
  IF Len(LoadOld(st)) = 0
  THEN {"public_transport", "car_included", "first_seen", "last_changed"}
  ELSE st.missing_cols

\* old_df.get(col, False).fillna(False) raises AttributeError when the
\* column is missing: get returns the default False, which has no fillna
BackfillRaises(st) ==
  \/ "public_transport" \in MissingCols(st)
  \/ "car_included" \in MissingCols(st)

\* a backfill that fills a missing last_changed column with the epoch
Backfill_EpochLastChanged(st, default_fs) ==
  LET old_df == LoadOld(st) IN
  [i \in 1..Len(old_df) |->
     [old_df[i] EXCEPT
        !.first_seen = IF "first_seen" \in MissingCols(st) THEN default_fs
                       ELSE old_df[i].first_seen,
        !.last_changed = IF "last_changed" \in MissingCols(st) THEN 0
                         ELSE old_df[i].last_changed]]

\* old_df after the backfill: a missing first_seen column is filled with
\* default_fs, a missing last_changed column with the first_seen column
Backfill(st, default_fs) ==
  LET old_df == LoadOld(st) IN
  [i \in 1..Len(old_df) |->
     LET fs == IF "first_seen" \in MissingCols(st) THEN default_fs
               ELSE old_df[i].first_seen IN
     [old_df[i] EXCEPT
        !.first_seen = fs,
        !.last_changed = IF "last_changed" \in MissingCols(st) THEN fs
                         ELSE old_df[i].last_changed]]

\* Index.join(how='outer') of the two unique_key indexes, as pairs
\* <<position in old_df, position in base_df>>, 0 for "no row":
\* equal indexes are aligned by position; otherwise the keys are sorted and
\* every key yields the product of its old rows and its current rows
RECURSIVE PairsOfKey(_, _)
PairsOfKey(L, R) ==
  IF L = <<>> THEN [j \in 1..Len(R) |-> <<0, R[j]>>]
  ELSE IF R = <<>> THEN [i \in 1..Len(L) |-> <<L[i], 0>>]
  ELSE [j \in 1..Len(R) |-> <<Head(L), R[j]>>]
       \o (IF Tail(L) = <<>> THEN <<>> ELSE PairsOfKey(Tail(L), R))

RECURSIVE PairsOfKeys(_, _, _)
PairsOfKeys(ks, old_df, new_df) ==
  IF ks = <<>> THEN <<>>
  ELSE PairsOfKey(Positions(old_df, Head(ks)), Positions(new_df, Head(ks)))
       \o PairsOfKeys(Tail(ks), old_df, new_df)

\* a left join: the keys of old_df only
JoinPairs_Left(old_df, new_df) ==
  PairsOfKeys(SortedKeys(KeySet(old_df)), old_df, new_df)

JoinPairs(old_df, new_df) ==
  IF KeyCol(old_df) = KeyCol(new_df)
  THEN [i \in 1..Len(old_df) |-> <<i, i>>]
  ELSE PairsOfKeys(SortedKeys(KeySet(old_df) \cup KeySet(new_df)), old_df, new_df)

\* one cell of combine_first: the caller's value unless it is missing
Coalesce(mine, other) == IF mine = NaN THEN other ELSE mine

\* one row of old_df.combine_first(base_df): old values win where present
CombineFirstRow(old_df, new_df, pr) ==
  IF pr[1] = 0 THEN
    LET b == new_df[pr[2]] IN
    [unique_key |-> b.unique_key, listing_id |-> b.listing_id,
     date_range |-> b.date_range, title |-> b.title, country |-> b.country,
     reviewing |-> b.reviewing, dog |-> b.dog,
     public_transport |-> b.public_transport, car_included |-> b.car_included,
     profile |-> b.profile,
     first_seen |-> NaT, last_changed |-> NaT,
     new_this_run |-> FALSE, expired |-> FALSE]
  ELSE IF pr[2] = 0 THEN old_df[pr[1]]
  ELSE LET o == old_df[pr[1]]
           b == new_df[pr[2]] IN
       [o EXCEPT !.title = Coalesce(o.title, b.title)]

CombineFirst(old_df, new_df) ==
  LET prs == JoinPairs(old_df, new_df) IN
  [n \in 1..Len(prs) |-> CombineFirstRow(old_df, new_df, prs[n])]

\* a comparison that covers CONTENT_COLS only and leaves the two auxiliary
\* booleans out
ContentDiffers_NoAux(nr, orow) ==
  \/ nr.title /= orow.title
  \/ nr.country /= orow.country
  \/ nr.reviewing /= orow.reviewing
  \/ nr.dog /= orow.dog

\* a comparison that also covers the profile column
ContentDiffers_WithProfile(nr, orow) ==
  \/ nr.title /= orow.title
  \/ nr.country /= orow.country
  \/ nr.reviewing /= orow.reviewing
  \/ nr.dog /= orow.dog
  \/ nr.public_transport /= orow.public_transport
  \/ nr.car_included /= orow.car_included
  \/ nr.profile /= orow.profile

\* CONTENT_COLS + ['public_transport', 'car_included'] compared cell by cell
ContentDiffers(nr, orow) ==
  \/ nr.title /= orow.title
  \/ nr.country /= orow.country
  \/ nr.reviewing /= orow.reviewing
  \/ nr.dog /= orow.dog
  \/ nr.public_transport /= orow.public_transport
  \/ nr.car_included /= orow.car_included

\* a merge loop that takes every re-observed row as changed
Changed_Always(old_df, new_df, uk) == TRUE

\* `changed` of the merge loop for key uk: nr is the first current row with
\* the key, orow the first old row with it
Changed(old_df, new_df, uk) ==
  LET nr == new_df[Head(Positions(new_df, uk))] IN
  \/ uk \notin KeySet(old_df)
  \/ ContentDiffers(nr, old_df[Head(Positions(old_df, uk))])

\* a merge loop that stamps last_changed = now on every row of the merged
\* table, the rows of absent keys included
MergeLoop_StampAll(merged, old_df, new_df, t) ==
  [n \in 1..Len(merged) |-> [merged[n] EXCEPT !.last_changed = t]]

\* a merge loop that leaves last_changed of an unchanged row unset
MergeLoop_Unstamped(merged, old_df, new_df, t) ==
  [n \in 1..Len(merged) |->
     LET uk == merged[n].unique_key IN
     IF uk \in KeySet(new_df)
     THEN [merged[n] EXCEPT
             !.last_changed = IF Changed(old_df, new_df, uk) THEN t ELSE NaT,
             !.profile = new_df[Head(Positions(new_df, uk))].profile]
     ELSE merged[n]]

\* the merge loop: every row whose key is in the snapshot gets, on all rows of
\* that key, the profile of the first current row and last_changed = now when
\* changed, else the last_changed the last row of that key had before the loop
MergeLoop(merged, old_df, new_df, t) ==
  [n \in 1..Len(merged) |->
     LET uk == merged[n].unique_key IN
     IF uk \in KeySet(new_df)
     THEN LET ps == Positions(merged, uk)
              last == merged[ps[Len(ps)]] IN
          [merged[n] EXCEPT
             !.last_changed = IF Changed(old_df, new_df, uk) THEN t
                              ELSE last.last_changed,
             !.profile = new_df[Head(Positions(new_df, uk))].profile]
     ELSE merged[n]]

\* a finish that stamps first_seen = now on every row
Finish_Restamp(merged, t) ==
  [n \in 1..Len(merged) |->
     [merged[n] EXCEPT !.first_seen = t, !.new_this_run = TRUE, !.expired = FALSE]]

\* a finish that never raises new_this_run
Finish_NoFlag(merged, t) ==
  [n \in 1..Len(merged) |->
     LET fs == IF merged[n].first_seen = NaT THEN t ELSE merged[n].first_seen IN
     [merged[n] EXCEPT !.first_seen = fs, !.new_this_run = FALSE,
                       !.expired = FALSE]]

\* first_seen.fillna(now), new_this_run = (first_seen == now), expired = False
Finish(merged, t) ==
  [n \in 1..Len(merged) |->
     LET fs == IF merged[n].first_seen = NaT THEN t ELSE merged[n].first_seen IN
     [merged[n] EXCEPT !.first_seen = fs, !.new_this_run = (fs = t),
                       !.expired = FALSE]]

\* exp_df: the old rows whose key is in old_keys - new_keys, marked expired
ExpDf(old_df, df) ==
  LET exp_keys == KeySet(old_df) \ KeySet(df)
      Exp(r) == r.unique_key \in exp_keys
      sel == SelectSeq(old_df, Exp) IN
  [n \in 1..Len(sel) |-> [sel[n] EXCEPT !.expired = TRUE, !.new_this_run = FALSE]]

\* out_df of main
OutDf(old_df, new_df, t) ==
  LET df == Finish(MergeLoop(CombineFirst(old_df, new_df), old_df, new_df, t), t)
  IN df \o ExpDf(old_df, df)

\* ---- alert selection ----------------------------------------------------
\* d.get(key, default) of a dict
Get(d, key, default) == IF key \in DOMAIN d THEN d[key] ELSE default

\* the formats calculate_days tries, in this order
Formats == <<"%b %d, %Y", "%d %b %Y", "%B %d, %Y", "%d %B %Y">>

\* a duration that counts the nights: the end day is left out
CalculateDays_Exclusive(row) ==
  IF row.date_from.kind /= "text" \/ row.date_to.kind /= "text" THEN 0
  ELSE IF \E n \in 1..Len(Formats) : Formats[n] \in row.date_from.fmts \cap row.date_to.fmts
       THEN row.date_to.day - row.date_from.day
       ELSE 0

\* a duration that tries the first format only
CalculateDays_FirstFormat(row) ==
  IF row.date_from.kind /= "text" \/ row.date_to.kind /= "text" THEN 0
  ELSE IF Formats[1] \in row.date_from.fmts \cap row.date_to.fmts
       THEN row.date_to.day - row.date_from.day + 1
       ELSE 0

\* calculate_days.  A date cell is [kind, fmts, day]: kind "empty" is the
\* empty string, "blank" a string of white space, "text" any other text;
\* fmts are the formats strptime parses the text under and day is the day it
\* denotes.  The first format that parses both texts gives the duration, both
\* days included; without such a format the duration is 0.
CalculateDays(row) ==
  IF row.date_from.kind = "empty" \/ row.date_to.kind = "empty" THEN 0
  ELSE IF row.date_from.kind = "blank" \/ row.date_to.kind = "blank" THEN 0
  ELSE IF \E n \in 1..Len(Formats) : Formats[n] \in row.date_from.fmts \cap row.date_to.fmts
       THEN row.date_to.day - row.date_from.day + 1
       ELSE 0

\* an exclusion that keeps the excluded countries only
ExcludeCountries_Inverted(df, excluded_countries) ==
  LET Keep(r) == r.country \in excluded_countries
  IN IF excluded_countries = {} THEN df ELSE SelectSeq(df, Keep)

\* filtered_df[~filtered_df['country'].isin(excluded_countries)], skipped
\* when the list is empty
ExcludeCountries(df, excluded_countries) ==
  LET Keep(r) == r.country \notin excluded_countries
  IN IF excluded_countries = {} THEN df ELSE SelectSeq(df, Keep)

\* a pet bound that is exclusive
MaxPets_Strict(df, max_pets) ==
  LET Keep(r) == \A t \in DOMAIN max_pets \cap PET_TYPES : r[t] < max_pets[t]
  IN SelectSeq(df, Keep)

\* the loop over max_pets.items(): one row selection per known pet type
MaxPets(df, max_pets) ==
  LET Keep(r) == \A t \in DOMAIN max_pets \cap PET_TYPES : r[t] <= max_pets[t]
  IN SelectSeq(df, Keep)

\* a drop that leaves the column in place
DropColumn_Kept(df, col) == df

\* df.drop(col, axis=1)
DropColumn(df, col) ==
  [i \in 1..Len(df) |-> [f \in DOMAIN df[i] \ {col} |-> df[i][f]]]

\* the min_days block: the column duration_days is added, the rows below
\* min_days are dropped and the column is removed again
MinDays(df, min_days) ==
  LET with == [i \in 1..Len(df) |->
                 [f \in DOMAIN df[i] \cup {"duration_days"} |->
                    IF f = "duration_days" THEN CalculateDays(df[i]) ELSE df[i][f]]]
      Keep(r) == r.duration_days >= min_days
  IN DropColumn(SelectSeq(with, Keep), "duration_days")

\* apply_profile_filters, filters being profile_config.get("filters", {}):
\* excluded_countries, then max_pets, then min_days when it is set and positive
ApplyProfileFilters(df, filters) ==
  LET by_country == ExcludeCountries(df, Get(filters, "excluded_countries", {}))
      by_pets == MaxPets(by_country, Get(filters, "max_pets", <<>>))
  IN IF "min_days" \in DOMAIN filters /\ filters.min_days > 0
     THEN MinDays(by_pets, filters.min_days)
     ELSE by_pets

\* a selection that hands every new record to every profile
ProfileDf_AnyProfile(out_df, profile_name) ==
  LET Sel(r) == r.new_this_run
  IN ApplyProfileFilters(SelectSeq(out_df, Sel), ProfileFilters[profile_name])

\* a selection that takes the records of the profile whether new or not
ProfileDf_EveryRun(out_df, profile_name) ==
  LET Sel(r) == r.profile = profile_name
  IN ApplyProfileFilters(SelectSeq(out_df, Sel), ProfileFilters[profile_name])

\* profile_df of main for one profile
ProfileDf(out_df, profile_name) ==
  LET Sel(r) == r.new_this_run /\ r.profile = profile_name
  IN ApplyProfileFilters(SelectSeq(out_df, Sel), ProfileFilters[profile_name])

NoAlerts == [p \in Profiles |-> <<>>]

\* ---- the rest of main after the profile loop ----------------------------
\* main returns or ends: the next run starts from the first profile
Advance ==
  /\ runs' = runs + 1
  /\ clock' = clock + 2
  /\ results' = <<>>
  /\ idx' = 1
  /\ pc' = IF runs + 1 >= MaxRuns THEN "done" ELSE "crawl"
  /\ UNCHANGED pure

NextRun ==
  /\ Advance
  /\ UNCHANGED posts

\* no profile returned rows: main returns before touching the store
MainNoResults ==
  /\ pc = "crawl"
  /\ idx > Len(ProfileOrder)
  /\ ConcatFrames(results) = <<>>
  /\ prevStore' = store
  /\ base_df' = <<>>
  /\ now' = clock
  /\ outcome' = "empty"
  /\ alerts' = NoAlerts
  /\ UNCHANGED store
  /\ NextRun

\* the backfill of old_df raises: main ends with the exception, nothing is
\* written and nothing is alerted
MainRaises ==
  /\ pc = "crawl"
  /\ idx > Len(ProfileOrder)
  /\ ConcatFrames(results) /= <<>>
  /\ BackfillRaises(store)
  /\ prevStore' = store
  /\ base_df' = ConcatFrames(results)
  /\ now' = clock
  /\ outcome' = "crashed"
  /\ alerts' = NoAlerts
  /\ UNCHANGED store
  /\ NextRun

\* merge, save, select the alerts
MainMerge ==
  /\ pc = "crawl"
  /\ idx > Len(ProfileOrder)
  /\ ConcatFrames(results) /= <<>>
  /\ ~BackfillRaises(store)
  /\ LET out_df == OutDf(Backfill(store, clock - 1), ConcatFrames(results), clock) IN
       /\ store' = [status |-> "ok", missing_cols |-> {}, rows |-> out_df]
       /\ alerts' = [p \in Profiles |-> ProfileDf(out_df, p)]
  /\ prevStore' = store
  /\ base_df' = ConcatFrames(results)
  /\ now' = clock
  /\ outcome' = "written"
  /\ NextRun

\* ---- initial states -----------------------------------------------------
\* records a store file can hold before the first modelled run: a plain
\* record, an expired one, and one whose title cell is missing
InitRecords ==
  {[unique_key |-> <<i, d>>, listing_id |-> i, date_range |-> d,
    title |-> v[1], country |-> "c1", reviewing |-> FALSE, dog |-> 0,
    public_transport |-> FALSE, car_included |-> FALSE, profile |-> p,
    first_seen |-> 0, last_changed |-> 0, new_this_run |-> FALSE,
    expired |-> v[2]] :
     i \in Ids, d \in DateRanges, p \in Profiles,
     v \in {<<"t1", FALSE>>, <<"t1", TRUE>>, <<NaN, FALSE>>}}

\* the record of a legacy store file; the cells of the columns the file
\* lacks are placeholders that are never read
LegacyRecord ==
  [unique_key |-> <<1, 1>>, listing_id |-> 1, date_range |-> 1,
   title |-> "t1", country |-> "c1", reviewing |-> FALSE, dog |-> 0,
   public_transport |-> FALSE, car_included |-> FALSE, profile |-> "A",
   first_seen |-> NaT, last_changed |-> NaT, new_this_run |-> FALSE,
   expired |-> FALSE]

\* the column sets a legacy store file lacks: the bookkeeping timestamps, or
\* the auxiliary booleans
LegacyCols == {{"first_seen", "last_changed"}, {"public_transport", "car_included"}}

\* no store file
NoStore == [status |-> "missing", missing_cols |-> {}, rows |-> <<>>]

\* store files: missing, unparsable, a table with one row, or a legacy table
InitStores ==
  {[status |-> "missing", missing_cols |-> {}, rows |-> <<>>],
   [status |-> "unparsable", missing_cols |-> {}, rows |-> <<>>]}
  \cup {[status |-> "ok", missing_cols |-> {}, rows |-> <<r>>] : r \in InitRecords}
  \cup {[status |-> "ok", missing_cols |-> c, rows |-> <<LegacyRecord>>] : c \in LegacyCols}

\* main has not run yet
Fresh ==
  /\ clock = 2
  /\ runs = 0
  /\ pc = "crawl"
  /\ idx = 1
  /\ results = <<>>
  /\ prevStore = store
  /\ base_df = <<>>
  /\ now = 0
  /\ outcome = "none"
  /\ alerts = NoAlerts
  /\ posts = <<>>

\* no call of a pure function is under way
NoCall ==
  /\ fin = <<>>
  /\ fout = <<>>
  /\ called = FALSE

Init ==
  /\ store \in InitStores
  /\ Fresh
  /\ scope = "listings"
  /\ NoCall

Next == ProcessProfile \/ MainNoResults \/ MainRaises \/ MainMerge

Spec == Init /\ [][Next]_vars

\* the runs of main on a site that offers listing 1 under several date
\* ranges; the store is missing or holds the listing under one of them
InitWindows ==
  /\ store \in {NoStore} \cup
       {[status |-> "ok", missing_cols |-> {},
         rows |-> <<[r EXCEPT !.unique_key = <<1, w>>, !.date_range = w]>>] :
          r \in {x \in InitRecords : x.listing_id = 1 /\ x.title = "t1" /\ ~x.expired},
          w \in Windows}
  /\ Fresh
  /\ scope = "windows"
  /\ NoCall

SpecWindows == InitWindows /\ [][Next]_vars

\* ---- listing_id_from_url ------------------------------------------------
MaxUrlLen == 5      \* characters of a URL at most

\* the characters \d matches
Digits == {"0", "1", "2", "3", "4", "5", "6", "7", "8", "9"}

\* the characters the URLs of the model are made of
UrlChars == {"/", "l", "1", "2", "?"}
Urls == UNION {[1..n -> UrlChars] : n \in 0..MaxUrlLen}

\* the last position of the longest run of digits that starts at position i,
\* i - 1 when there is no digit at i
RECURSIVE DigitsEnd(_, _)
DigitsEnd(url, i) ==
  IF i <= Len(url) /\ url[i] \in Digits THEN DigitsEnd(url, i + 1) ELSE i - 1

\* the pattern /l/(\d+)(?:/|$) matches at position p: "/l/", one or more
\* digits, then "/" or the end of the text
MatchAt(url, p) ==
  /\ p + 3 <= Len(url)
  /\ SubSeq(url, p, p + 2) = <<"/", "l", "/">>
  /\ LET e == DigitsEnd(url, p + 3) IN
       /\ e >= p + 3
       /\ (e = Len(url) \/ url[e + 1] = "/")

\* re.search takes the leftmost match; group 1 is the digits, and without a
\* match the URL itself is returned
ListingIdFromUrl(url) ==
  LET ms == {p \in 1..Len(url) : MatchAt(url, p)} IN
  IF ms = {} THEN url
  ELSE LET p == CHOOSE q \in ms : \A r \in ms : q <= r IN
       SubSeq(url, p + 3, DigitsEnd(url, p + 3))

\* the call returns: nothing but fout and called changes
Return ==
  /\ called' = TRUE
  /\ UNCHANGED <<store, clock, runs, pc, idx, results, prevStore, base_df, now,
                 outcome, alerts, scope, fin, posts>>

InitUrl ==
  /\ store = NoStore
  /\ Fresh
  /\ scope = "listings"
  /\ fin \in Urls
  /\ fout = <<>>
  /\ called = FALSE

CallListingIdFromUrl ==
  /\ ~called
  /\ fout' = ListingIdFromUrl(fin)
  /\ Return

SpecUrl == InitUrl /\ [][CallListingIdFromUrl]_vars

\* ---- the combiner of process_profile, on the rows of scrape_run --------
MaxAuxRows == 1     \* rows an auxiliary pass returns at most

\* "https://www.trustedhousesitters.com", the prefix of a row's url
Site == <<"h", ":">>

\* the href of a listing card: two with a numeric id, one without
Hrefs == {<<"/", "l", "/", "1", "/">>, <<"/", "l", "/", "2">>, <<"/", "x", "/">>}

\* the row scrape_run appends for a card: listing_id is derived from the
\* relative href, url is the absolute address
ScrapeRow(rel, d) ==
  [url |-> Site \o rel, listing_id |-> ListingIdFromUrl(rel), date_range |-> d,
   title |-> "t1", country |-> "c1", reviewing |-> FALSE, dog |-> 0]

ScrapeRows == {ScrapeRow(rel, d) : rel \in Hrefs, d \in Windows}

\* the outputs of the three modes of one profile
PassOutputs ==
  [baseline         : UNION {[1..n -> ScrapeRows] : n \in 0..MaxRows},
   public_transport : UNION {[1..n -> ScrapeRows] : n \in 0..MaxAuxRows},
   car_included     : UNION {[1..n -> ScrapeRows] : n \in 0..MaxAuxRows}]

\* the ids of an auxiliary pass: listing_id_from_url(r['url']) of its rows
AuxIds(rows) == {ListingIdFromUrl(rows[i].url) : i \in 1..Len(rows)}

\* a combiner that appends the rows of the public_transport pass
CombinePasses_AuxRows(profile_name, passes) ==
  Combine(profile_name, passes.baseline \o passes.public_transport,
          AuxIds(passes.public_transport), AuxIds(passes.car_included))

\* a combiner that matches an auxiliary row by listing id and date range
CombinePasses_ByWindow(profile_name, passes) ==
  [i \in 1..Len(passes.baseline) |->
     LET SameWindow(r) == r.date_range = passes.baseline[i].date_range IN
     Combine(profile_name, <<passes.baseline[i]>>,
             AuxIds(SelectSeq(passes.public_transport, SameWindow)),
             AuxIds(SelectSeq(passes.car_included, SameWindow)))[1]]

\* process_profile after the three modes have run: passes is the dict `runs`
CombinePasses(profile_name, passes) ==
  Combine(profile_name, passes.baseline,
          AuxIds(passes.public_transport), AuxIds(passes.car_included))

InitCombine ==
  /\ store = NoStore
  /\ Fresh
  /\ scope = "listings"
  /\ fin \in PassOutputs
  /\ fout = <<>>
  /\ called = FALSE

CallCombinePasses ==
  /\ ~called
  /\ fout' = CombinePasses("A", fin)
  /\ Return

SpecCombine == InitCombine /\ [][CallCombinePasses]_vars

\* ---- apply_profile_filters as a function ------------------------------
MaxDfLen == 2       \* rows of the table handed to apply_profile_filters
MaxDay == 3         \* days the date texts denote

\* the date cells of the model: the empty string, white space, a text no
\* format parses, and texts that denote a day under the first format, under
\* the second format, or under the first and the third (a month such as May)
DateCells ==
  {[kind |-> "empty", fmts |-> {}, day |-> 0],
   [kind |-> "blank", fmts |-> {}, day |-> 0],
   [kind |-> "text", fmts |-> {}, day |-> 0]}
  \cup {[kind |-> "text", fmts |-> {Formats[1]}, day |-> d] : d \in 1..MaxDay}
  \cup {[kind |-> "text", fmts |-> {Formats[2]}, day |-> MaxDay],
        [kind |-> "text", fmts |-> {Formats[1], Formats[3]}, day |-> 1]}

\* a date text of the first format, the default of a row
PlainDate == [kind |-> "text", fmts |-> {Formats[1]}, day |-> 1]
\* the latest day of the first format
LastDate == [kind |-> "text", fmts |-> {Formats[1]}, day |-> MaxDay]

\* the pairs <<date_from, date_to>> of the model: every cell against the
\* latest day, in both directions, and every cell against itself
DatePairs ==
  {<<c, LastDate>> : c \in DateCells} \cup {<<LastDate, c>> : c \in DateCells}
  \cup {<<c, c>> : c \in DateCells}

\* the rows of the table: rows that vary in country and pets, and rows that
\* vary in their dates
FilterRows ==
  [country : {"c1", "c2"}, dog : 0..2, cat : 0..1,
   date_from : {PlainDate}, date_to : {PlainDate}]
  \cup {[country |-> "c1", dog |-> 0, cat |-> 0, date_from |-> pr[1], date_to |-> pr[2]] :
          pr \in DatePairs}

\* values of "filters": every combination of the three keys, set or absent
MaxPetsValues ==
  {[t \in {"dog"} |-> 1], [t \in {"dog", "cat"} |-> IF t = "dog" THEN 1 ELSE 0],
   [t \in {"unicorn"} |-> 0]}

FiltersValues ==
  {[k \in ks |-> IF k = "excluded_countries" THEN e
                 ELSE IF k = "max_pets" THEN m ELSE d] :
     ks \in SUBSET {"excluded_countries", "max_pets", "min_days"},
     e \in {{}, {"c2"}}, m \in MaxPetsValues, d \in {0, 1, 2}}

\* profile_config: without "filters", or with one of the values above
ProfileConfigs == {<<>>} \cup {[k \in {"filters"} |-> f] : f \in FiltersValues}

InitFilter ==
  /\ store = NoStore
  /\ Fresh
  /\ scope = "listings"
  /\ fin \in [df : UNION {[1..n -> FilterRows] : n \in 0..MaxDfLen},
              profile_config : ProfileConfigs]
  /\ fout = <<>>
  /\ called = FALSE

CallApplyProfileFilters ==
  /\ ~called
  /\ fout' = ApplyProfileFilters(fin.df, Get(fin.profile_config, "filters", <<>>))
  /\ Return

SpecFilter == InitFilter /\ [][CallApplyProfileFilters]_vars

\* ---- escape_markdown ----------------------------------------------------
MaxTextLen == 3     \* characters of a text at most

\* a Python value handed to escape_markdown: a str with its characters, or a
\* value of another type (the number 123, None) with its repr
TextChars == {"_", "(", "~", "a"}
Texts == UNION {[1..n -> TextChars] : n \in 0..MaxTextLen}
Values ==
  [is_str : {TRUE}, repr : Texts]
    \cup {[is_str |-> FALSE, repr |-> <<"1", "2", "3">>],
          [is_str |-> FALSE, repr |-> <<"N", "o", "n", "e">>]}

\* the character class [_\*\[\]`~] of the pattern
\* (Backtick names the character U+0060)
Backtick == "backtick"
EscapedChars == {"_", "*", "[", "]", Backtick, "~"}

\* re.sub(r'([_\*\[\]`~])', r'\\\1', text): every character of the class is
\* replaced by a backslash and itself
RECURSIVE ReSub(_)
ReSub(text) ==
  IF text = <<>> THEN <<>>
  ELSE (IF Head(text) \in EscapedChars THEN <<"\\", Head(text)>> ELSE <<Head(text)>>)
         \o ReSub(Tail(text))

\* escape_markdown: a value that is not a str is returned as it is
EscapeMarkdown(text) ==
  IF ~text.is_str THEN text ELSE [is_str |-> TRUE, repr |-> ReSub(text.repr)]

InitEscape ==
  /\ store = NoStore
  /\ Fresh
  /\ scope = "listings"
  /\ fin \in Values
  /\ fout = <<>>
  /\ called = FALSE

CallEscapeMarkdown ==
  /\ ~called
  /\ fout' = EscapeMarkdown(fin)
  /\ Return

SpecEscape == InitEscape /\ [][CallEscapeMarkdown]_vars

\* ---- split_location -----------------------------------------------------
MaxLocLen == 4      \* characters of a location at most

LocChars == {",", " ", "a", "b"}
Locations == UNION {[1..n -> LocChars] : n \in 0..MaxLocLen}

\* the characters str.strip() removes
Whitespace == {" "}

RECURSIVE LStrip(_)
LStrip(t) == IF t /= <<>> /\ Head(t) \in Whitespace THEN LStrip(Tail(t)) ELSE t

RECURSIVE RStrip(_)
RStrip(t) ==
  IF t /= <<>> /\ t[Len(t)] \in Whitespace THEN RStrip(SubSeq(t, 1, Len(t) - 1)) ELSE t

\* str.strip()
Strip(t) == RStrip(LStrip(t))

\* a split at the first separator
RSplit_First(t, sep) ==
  LET ps == {p \in 1..Len(t) : t[p] = sep} IN
  IF ps = {} THEN <<t>>
  ELSE LET p == CHOOSE q \in ps : \A r \in ps : q <= r IN
       <<SubSeq(t, 1, p - 1), SubSeq(t, p + 1, Len(t))>>

\* t.rsplit(sep, maxsplit=1): split at the last separator, if any
RSplit(t, sep) ==
  LET ps == {p \in 1..Len(t) : t[p] = sep} IN
  IF ps = {} THEN <<t>>
  ELSE LET p == CHOOSE q \in ps : \A r \in ps : q >= r IN
       <<SubSeq(t, 1, p - 1), SubSeq(t, p + 1, Len(t))>>

\* split_location: (town, country); without a comma the location itself,
\* not stripped, and the empty text
SplitLocation(location) ==
  LET raw == RSplit(location, ",")
      parts == [i \in 1..Len(raw) |-> Strip(raw[i])] IN
  IF Len(parts) = 2 THEN <<parts[1], parts[2]>> ELSE <<location, <<>>>>

InitSplit ==
  /\ store = NoStore
  /\ Fresh
  /\ scope = "listings"
  /\ fin \in Locations
  /\ fout = <<>>
  /\ called = FALSE

CallSplitLocation ==
  /\ ~called
  /\ fout' = SplitLocation(fin)
  /\ Return

SpecSplit == InitSplit /\ [][CallSplitLocation]_vars

\* ---- normalize_pet ------------------------------------------------------
MaxPetLen == 4      \* tokens of a pet name at most

\* a pet name is a sequence of tokens: the words "small" (also capitalised)
\* and "pet", the letter "s", the space and the underscore
PetTokens == {"Small", "small", "pet", "s", " ", "_"}
PetNames == UNION {[1..n -> PetTokens] : n \in 0..MaxPetLen}

\* str.lower()
Lower(t) == [i \in 1..Len(t) |-> IF t[i] = "Small" THEN "small" ELSE t[i]]

\* t.replace("small pet", "small_pets"): the occurrences from left to right,
\* without overlap
RECURSIVE ReplaceSmallPet(_)
ReplaceSmallPet(t) ==
  IF Len(t) >= 3 /\ SubSeq(t, 1, 3) = <<"small", " ", "pet">>
  THEN <<"small", "_", "pet", "s">> \o ReplaceSmallPet(SubSeq(t, 4, Len(t)))
  ELSE IF t = <<>> THEN <<>>
  ELSE <<Head(t)>> \o ReplaceSmallPet(Tail(t))

\* t.replace(" ", "_")
ReplaceSpaces(t) == [i \in 1..Len(t) |-> IF t[i] = " " THEN "_" ELSE t[i]]

\* a normalisation that leaves the remaining spaces in place
NormalizePet_KeepSpaces(pet) == ReplaceSmallPet(Strip(Lower(pet)))

\* normalize_pet
NormalizePet(pet) == ReplaceSpaces(ReplaceSmallPet(Strip(Lower(pet))))

InitPet ==
  /\ store = NoStore
  /\ Fresh
  /\ scope = "listings"
  /\ fin \in PetNames
  /\ fout = <<>>
  /\ called = FALSE

CallNormalizePet ==
  /\ ~called
  /\ fout' = NormalizePet(fin)
  /\ Return

SpecPet == InitPet /\ [][CallNormalizePet]_vars

\* ---- the notifier: format_telegram_message, send_telegram_message -------
MaxAlertRows == 6   \* rows of an alert batch at most

\* rows per message: the step of range(0, len(rows), 4)
ChunkSize == 4

\* the header of the messages of a profile
Header(profile_config) ==
  Get(Get(profile_config, "notification", <<>>), "header", "New Listings")

\* a group whose numbering restarts in every chunk
Group_Renumbered(rows, i) ==
  LET n == IF Len(rows) - i < ChunkSize THEN Len(rows) - i ELSE ChunkSize IN
  [j \in 1..n |-> [idx |-> j, row |-> rows[i + j]]]

\* the numbered entries of rows[i:i + 4], enumerate(group, start=i + 1)
Group(rows, i) ==
  LET n == IF Len(rows) - i < ChunkSize THEN Len(rows) - i ELSE ChunkSize IN
  [j \in 1..n |-> [idx |-> i + j, row |-> rows[i + j]]]

\* the chunks from offset i on; a chunk is its header and its entries
RECURSIVE Chunks(_, _, _)
Chunks(rows, header, i) ==
  IF i >= Len(rows) THEN <<>>
  ELSE <<[header |-> header, entries |-> Group(rows, i)]>>
         \o Chunks(rows, header, i + ChunkSize)

\* format_telegram_message
FormatTelegramMessage(rows, profile_config) == Chunks(rows, Header(profile_config), 0)

InitFormat ==
  /\ store = NoStore
  /\ Fresh
  /\ scope = "listings"
  /\ fin \in [rows : UNION {[1..n -> {"r1", "r2"}] : n \in 0..MaxAlertRows},
              profile_config : {<<>>, [notification |-> [header |-> "H"]]}]
  /\ fout = <<>>
  /\ called = FALSE

CallFormatTelegramMessage ==
  /\ ~called
  /\ fout' = FormatTelegramMessage(fin.rows, fin.profile_config)
  /\ Return

SpecFormat == InitFormat /\ [][CallFormatTelegramMessage]_vars

\* what requests.post does with one chunk: status 200, another status, or
\* an exception
Statuses == {"200", "400", "exception"}

\* the parts a batch can have
Parts == 1..((MaxAlertRows + ChunkSize - 1) \div ChunkSize)

\* a notifier that gives up at the first chunk that fails
SendTelegramMessage_StopOnFailure(chunks, credentials, responses) ==
  IF ~credentials THEN [posts |-> <<>>, raised |-> FALSE]
  ELSE LET bad == {part \in 1..Len(chunks) : responses[part] /= "200"} IN
       IF bad = {}
       THEN [posts |-> [part \in 1..Len(chunks) |->
                          [part |-> part, chunk |-> chunks[part], status |-> responses[part]]],
             raised |-> FALSE]
       ELSE LET first == CHOOSE b \in bad : \A c \in bad : b <= c IN
            [posts |-> [part \in 1..first |->
                          [part |-> part, chunk |-> chunks[part], status |-> responses[part]]],
             raised |-> TRUE]

\* send_telegram_message: without credentials nothing is posted; else every
\* chunk is posted in order, a status other than 200 is logged and an
\* exception is caught and logged.  The value is the requests made and
\* whether the call ended with an exception.
SendTelegramMessage(chunks, credentials, responses) ==
  IF ~credentials THEN [posts |-> <<>>, raised |-> FALSE]
  ELSE [posts |-> [part \in 1..Len(chunks) |->
                     [part |-> part, chunk |-> chunks[part], status |-> responses[part]]],
        raised |-> FALSE]

\* profile_config of a profile as main passes it on: no "notification" key
ProfileConfig(p) == [k \in {"filters"} |-> ProfileFilters[p]]

\* the alert loop of main from the n-th profile on: a profile with an empty
\* profile_df is skipped, the others are formatted and sent; an exception
\* that leaves send_telegram_message ends the loop
RECURSIVE NotifyLoop(_, _, _, _)
NotifyLoop(profile_dfs, credentials, responses, n) ==
  IF n > Len(ProfileOrder) THEN [posts |-> <<>>, raised |-> FALSE]
  ELSE LET p == ProfileOrder[n] IN
       IF profile_dfs[p] = <<>>
       THEN NotifyLoop(profile_dfs, credentials, responses, n + 1)
       ELSE LET r == SendTelegramMessage(
                       FormatTelegramMessage(profile_dfs[p], ProfileConfig(p)),
                       credentials, responses[p])
                mine == [i \in 1..Len(r.posts) |->
                           [profile |-> p, part |-> r.posts[i].part,
                            chunk |-> r.posts[i].chunk, status |-> r.posts[i].status]] IN
            IF r.raised THEN [posts |-> mine, raised |-> TRUE]
            ELSE LET rest == NotifyLoop(profile_dfs, credentials, responses, n + 1) IN
                 [posts |-> mine \o rest.posts, raised |-> rest.raised]

\* alert batches of the loop: n rows per profile
AlertLists == {[i \in 1..n |-> "r"] : n \in 0..MaxAlertRows}

InitSend ==
  /\ store = NoStore
  /\ Fresh
  /\ scope = "listings"
  /\ fin \in [profile_dfs : [Profiles -> AlertLists],
              credentials : BOOLEAN,
              responses : [Profiles -> [Parts -> Statuses]]]
  /\ fout = <<>>
  /\ called = FALSE

CallNotifyLoop ==
  /\ ~called
  /\ fout' = NotifyLoop(fin.profile_dfs, fin.credentials, fin.responses, 1)
  /\ Return

SpecSend == InitSend /\ [][CallNotifyLoop]_vars

\* ---- main with the write and the alert loop as two steps ----------------
\* a write that leaves the file as it was
WriteStore_Unsaved(st, out_df) == st

\* out_df.to_json(JSON_PATH): the file holds out_df
WriteStore(st, out_df) == [status |-> "ok", missing_cols |-> {}, rows |-> out_df]

\* merge, save and select the alerts; the alert loop has not started
MainWrite ==
  /\ pc = "crawl"
  /\ idx > Len(ProfileOrder)
  /\ ConcatFrames(results) /= <<>>
  /\ ~BackfillRaises(store)
  /\ LET out_df == OutDf(Backfill(store, clock - 1), ConcatFrames(results), clock) IN
       /\ store' = WriteStore(store, out_df)
       /\ alerts' = [p \in Profiles |-> ProfileDf(out_df, p)]
  /\ prevStore' = store
  /\ base_df' = ConcatFrames(results)
  /\ now' = clock
  /\ outcome' = "written"
  /\ pc' = "notify"
  /\ UNCHANGED <<clock, runs, idx, results, posts>>
  /\ UNCHANGED pure

\* the alert loop: the credentials are set or not, and every request ends in
\* one of Statuses
MainNotify ==
  /\ pc = "notify"
  /\ \E credentials \in BOOLEAN, responses \in [Profiles -> [{1} -> Statuses]] :
       posts' = NotifyLoop(alerts, credentials, responses, 1).posts
  /\ Advance
  /\ UNCHANGED <<store, prevStore, base_df, now, outcome, alerts>>

\* the store is missing or holds one record
InitNotify ==
  /\ store \in {NoStore} \cup
       {[status |-> "ok", missing_cols |-> {}, rows |-> <<r>>] :
          r \in {x \in InitRecords : x.title = "t1" /\ ~x.expired /\ x.profile = "A"}}
  /\ Fresh
  /\ scope = "listings"
  /\ NoCall

NextNotify == ProcessProfile \/ MainNoResults \/ MainRaises \/ MainWrite \/ MainNotify

SpecNotify == InitNotify /\ [][NextNotify]_vars

\* ---- the last finished run, as the claims speak of it -------------------
\* rows of the store the last run started from, as main sees them after the
\* backfill / rows of the store as it is now
OldRows == Backfill(prevStore, now - 1)
NewRows == LoadOld(store)
Dom(df) == 1..Len(df)

\* the records of the current store for one (profile, unique_key)
RecordsOf(p, k) == {j \in Dom(NewRows) : NewRows[j].profile = p /\ NewRows[j].unique_key = k}
\* the rows of a table that carry key k
RowsOf(df, k) == {i \in Dom(df) : df[i].unique_key = k}

\* the content columns and auxiliary booleans of two rows are equal
ContentEqual(a, b) ==
  /\ a.title = b.title
  /\ a.country = b.country
  /\ a.reviewing = b.reviewing
  /\ a.dog = b.dog
  /\ a.public_transport = b.public_transport
  /\ a.car_included = b.car_included

\* keys of the previous store that the last snapshot observes again
Reobserved == KeySet(OldRows) \cap KeySet(base_df)

\* C1: absent -> present. After a run with a non-empty snapshot, every
\* unique_key of the snapshot that was not in the previous store has exactly
\* one record in the store, with first_seen = last_changed = now,
\* expired = false and new_this_run = true.
C1_AbsentPresent ==
  (outcome /= "none" /\ base_df /= <<>>) =>
    \A k \in KeySet(base_df) \ KeySet(OldRows) :
      /\ Cardinality(RowsOf(NewRows, k)) = 1
      /\ \A j \in RowsOf(NewRows, k) : /\ NewRows[j].first_seen = now
                                       /\ NewRows[j].last_changed = now
                                       /\ ~NewRows[j].expired
                                       /\ NewRows[j].new_this_run

\* C2: expiry. After a run that wrote the store, every record of the
\* previous store whose unique_key is absent from the snapshot is retained
\* with its original content, expired = true and new_this_run = false.
C2_Expiry ==
  outcome = "written" =>
    \A i \in Dom(OldRows) :
      OldRows[i].unique_key \notin KeySet(base_df) =>
        \E j \in Dom(NewRows) :
          NewRows[j] = [OldRows[i] EXCEPT !.expired = TRUE, !.new_this_run = FALSE]

\* C3: content overwrite. After a run that wrote the store, every record
\* whose unique_key was in the previous store and is observed again carries
\* the content fields and auxiliary booleans of a current snapshot row of
\* that key (current values win over previous ones).
C3_CurrentWins ==
  outcome = "written" =>
    \A k \in Reobserved :
      \A j \in RowsOf(NewRows, k) :
        \E i \in RowsOf(base_df, k) : ContentEqual(base_df[i], NewRows[j])

\* C4: idempotence of an unchanged re-run. When a run that wrote the store is
\* followed by a run with the identical combined snapshot, the second run
\* writes a store in which no record has new_this_run and every record has
\* the last_changed it had after the first run.
C4_Idempotent ==
  [][(runs' = runs + 1 /\ outcome = "written" /\ outcome' = "written"
        /\ base_df' = base_df) =>
       \A j \in Dom(LoadOld(store')) :
         LET r == LoadOld(store')[j] IN
         /\ ~r.new_this_run
         /\ \E i \in Dom(NewRows) : /\ NewRows[i].unique_key = r.unique_key
                                    /\ NewRows[i].profile = r.profile
                                    /\ NewRows[i].last_changed = r.last_changed]_vars

\* the snapshot rows of key k all differ in content from the records the
\* previous store holds for k, none of which is expired
ChangedCase(k) ==
  \A o \in RowsOf(OldRows, k) :
    /\ ~OldRows[o].expired
    /\ \A i \in RowsOf(base_df, k) : ~ContentEqual(base_df[i], OldRows[o])

\* C5: changed listing. After a run that wrote the store, for a unique_key
\* present (not expired) in the previous store and present in the snapshot
\* whose current row differs from the persisted record in a content column or
\* auxiliary boolean, every record of the key has last_changed = now, the
\* first_seen that was persisted and new_this_run = false.
C5_Changed ==
  outcome = "written" =>
    \A k \in Reobserved :
      ChangedCase(k) =>
        \A j \in RowsOf(NewRows, k) :
          /\ NewRows[j].last_changed = now
          /\ \E o \in RowsOf(OldRows, k) : NewRows[j].first_seen = OldRows[o].first_seen
          /\ ~NewRows[j].new_this_run

\* C5 witness: a run has stamped last_changed = now on a record that was
\* first seen earlier, because its snapshot row came back with other content
C5_Witness ==
  /\ outcome = "written"
  /\ \E k \in Reobserved :
       /\ ChangedCase(k)
       /\ \E j \in RowsOf(NewRows, k) : /\ NewRows[j].last_changed = now
                                        /\ NewRows[j].first_seen < now

\* the snapshot rows of key k all equal in content the records the previous
\* store holds for k
UnchangedCase(k) ==
  \A o \in RowsOf(OldRows, k) :
    \A i \in RowsOf(base_df, k) : ContentEqual(base_df[i], OldRows[o])

\* C6: unchanged listing. After a run that wrote the store, for a unique_key
\* of the previous store that the snapshot reproduces identically (all
\* content columns and auxiliary booleans equal) at a later time, every
\* record of the key has the first_seen and the last_changed that were
\* persisted and new_this_run = false.
C6_Unchanged ==
  outcome = "written" =>
    \A k \in Reobserved :
      UnchangedCase(k) =>
        \A j \in RowsOf(NewRows, k) :
          /\ \E o \in RowsOf(OldRows, k) :
               /\ NewRows[j].first_seen = OldRows[o].first_seen
               /\ NewRows[j].last_changed = OldRows[o].last_changed
          /\ ~NewRows[j].new_this_run

\* C6 witness: a run has re-observed a key with identical content and
\* written its record back with a last_changed older than the run
C6_Witness ==
  /\ outcome = "written"
  /\ \E k \in Reobserved :
       /\ UnchangedCase(k)
       /\ \E j \in RowsOf(NewRows, k) : NewRows[j].last_changed < now

\* C7: expiry is one-way. After a run that wrote the store, no unique_key
\* that had an expired record in the previous store has a record with
\* expired = false.
C7_ExpiryOneWay ==
  outcome = "written" =>
    \A o \in Dom(OldRows) :
      OldRows[o].expired =>
        \A j \in RowsOf(NewRows, OldRows[o].unique_key) : NewRows[j].expired

\* C8: missing or unparsable store. A run that starts from a store file that
\* is missing or cannot be parsed, with a non-empty snapshot, completes and
\* writes the store; every snapshot row is persisted with new_this_run = true
\* and is selected for its profile's alerts.
C8_MissingStore ==
  (outcome /= "none" /\ prevStore.status /= "ok" /\ base_df /= <<>>) =>
    /\ outcome = "written"
    /\ \A i \in Dom(base_df) :
         \E j \in RecordsOf(base_df[i].profile, base_df[i].unique_key) :
           /\ NewRows[j].new_this_run
           /\ \E a \in Dom(alerts[base_df[i].profile]) :
                alerts[base_df[i].profile][a] = NewRows[j]

\* C9: unconditional persistence. Every finished run has written the store,
\* and the written store holds the keys of the previous store and of the
\* snapshot, also when every profile returned zero rows.
C9_AlwaysPersisted ==
  outcome /= "none" =>
    /\ outcome = "written"
    /\ store.status = "ok"
    /\ KeySet(NewRows) = KeySet(OldRows) \cup KeySet(base_df)

\* C10: per-profile records. After a run that wrote the store, a unique_key
\* returned by two profiles has a record for each of the two profiles, each
\* carrying its own profile name.
C10_PerProfileRecords ==
  outcome = "written" =>
    \A a, b \in Dom(base_df) :
      (base_df[a].unique_key = base_df[b].unique_key
         /\ base_df[a].profile /= base_df[b].profile) =>
        /\ RecordsOf(base_df[a].profile, base_df[a].unique_key) /= {}
        /\ RecordsOf(base_df[b].profile, base_df[b].unique_key) /= {}

\* a snapshot row passes the filters of its profile
PassesFilters(r) == ApplyProfileFilters(<<r>>, ProfileFilters[r.profile]) /= <<>>

\* C11: per-profile alerting history. After a run that wrote the store, a
\* snapshot row of profile p whose unique_key the previous store holds for
\* other profiles only, and which passes p's filters, is in p's alert batch.
C11_PerProfileAlert ==
  outcome = "written" =>
    \A i \in Dom(base_df) :
      LET p == base_df[i].profile
          k == base_df[i].unique_key IN
      (/\ RowsOf(OldRows, k) /= {}
       /\ \A o \in RowsOf(OldRows, k) : OldRows[o].profile /= p
       /\ PassesFilters(base_df[i])) =>
        \E a \in Dom(alerts[p]) : alerts[p][a].unique_key = k

\* C12: store uniqueness. Every store written by a run holds no two records
\* with the same (profile, unique_key) pair.
C12_StoreUnique ==
  outcome = "written" =>
    \A a, b \in Dom(NewRows) :
      (NewRows[a].profile = NewRows[b].profile
         /\ NewRows[a].unique_key = NewRows[b].unique_key) => a = b

\* the first_seen values the records of key k carry in a table
FirstSeenOf(df, k) == {df[i].first_seen : i \in RowsOf(df, k)}

\* C13: first-seen stability. After a run that wrote the store, the records
\* of every unique_key of the previous store carry exactly the first_seen
\* values they carried before the run.
C13_FirstSeenStable ==
  outcome = "written" =>
    \A k \in KeySet(OldRows) : FirstSeenOf(NewRows, k) = FirstSeenOf(OldRows, k)

\* C13 witness: a record created by the first run (first_seen = 2) is still
\* stamped 2 after the second run re-observed its key at time 4
C13_Witness ==
  /\ outcome = "written"
  /\ now = 4
  /\ \E k \in Reobserved : /\ FirstSeenOf(OldRows, k) = {2}
                           /\ FirstSeenOf(NewRows, k) = {2}

\* C14: last_changed is monotonically non-decreasing. After a run that wrote
\* the store, every record of a unique_key of the previous store has a
\* last_changed greater than or equal to that of every record the previous
\* store held for the key.
C14_LastChangedMonotone ==
  outcome = "written" =>
    \A k \in KeySet(OldRows) :
      \A j \in RowsOf(NewRows, k) :
        \A o \in RowsOf(OldRows, k) :
          NewRows[j].last_changed >= OldRows[o].last_changed

\* C14 witness: the second run kept last_changed = 2 on one key and moved it
\* from 2 to 4 on another
C14_Witness ==
  /\ outcome = "written"
  /\ now = 4
  /\ \E k \in KeySet(OldRows) :
       \E j \in RowsOf(NewRows, k), o \in RowsOf(OldRows, k) :
         OldRows[o].last_changed = 2 /\ NewRows[j].last_changed = 4
  /\ \E k \in KeySet(OldRows) :
       \E j \in RowsOf(NewRows, k), o \in RowsOf(OldRows, k) :
         OldRows[o].last_changed = 2 /\ NewRows[j].last_changed = 2

C16_AppendOnly ==
  /\ outcome = "written" =>
       KeySet(NewRows) = KeySet(LoadOld(prevStore)) \cup KeySet(base_df)
  /\ outcome \in {"empty", "crashed"} => store = prevStore

\* C16 witness: the written store holds a key only the previous store had
\* and a key only the snapshot had
C16_Witness ==
  /\ outcome = "written"
  /\ \E k \in KeySet(OldRows) \ KeySet(base_df) : k \in KeySet(NewRows)
  /\ \E k \in KeySet(base_df) \ KeySet(OldRows) : k \in KeySet(NewRows)

\* C17: new_this_run is derived. In every store written by a run a record
\* has new_this_run = true exactly when its first_seen is the run's now.
C17_NewThisRunDerived ==
  outcome = "written" =>
    \A j \in Dom(NewRows) :
      NewRows[j].new_this_run <=> (NewRows[j].first_seen = now)

\* C17 witness: a written store holds a record created by the run, flagged,
\* next to a record first seen before the run, not flagged
C17_Witness ==
  /\ outcome = "written"
  /\ \E j \in Dom(NewRows) : NewRows[j].first_seen = now /\ NewRows[j].new_this_run
  /\ \E j \in Dom(NewRows) : NewRows[j].first_seen < now /\ ~NewRows[j].new_this_run

\* C18: legacy backfill. A run with a non-empty snapshot on a store file that
\* lacks bookkeeping or auxiliary columns writes the store; every record of
\* a legacy key has first_seen before now and new_this_run = false, and the
\* auxiliary booleans the file lacked are false.
C18_LegacyBackfill ==
  (outcome /= "none" /\ prevStore.status = "ok" /\ prevStore.missing_cols /= {}
     /\ base_df /= <<>>) =>
    /\ outcome = "written"
    /\ \A k \in KeySet(LoadOld(prevStore)) :
         \A j \in RowsOf(NewRows, k) :
           /\ NewRows[j].first_seen < now
           /\ ~NewRows[j].new_this_run
           /\ "public_transport" \in prevStore.missing_cols => ~NewRows[j].public_transport
           /\ "car_included" \in prevStore.missing_cols => ~NewRows[j].car_included

\* C19: crawl-failure isolation. A run in which the crawl of one profile
\* raised and another profile returned rows ends by writing the store; the
\* store then holds every row the other profiles returned, under its profile,
\* and each of those rows whose key is new to the store is alerted.
C19_CrawlFailureIsolated ==
  [][(runs' = runs + 1 /\ (\E i \in Dom(results) : ~results[i].ok)
        /\ ConcatFrames(results) /= <<>>) =>
       /\ outcome' = "written"
       /\ \A i \in Dom(base_df') :
            LET p == base_df'[i].profile
                k == base_df'[i].unique_key IN
            /\ \E j \in Dom(LoadOld(store')) : /\ LoadOld(store')[j].unique_key = k
                                               /\ LoadOld(store')[j].profile = p
            /\ (k \notin KeySet(LoadOld(store)) /\ PassesFilters(base_df'[i])) =>
                 \E a \in Dom(alerts'[p]) : alerts'[p][a].unique_key = k]_vars

\* C20: single store cycle. The store changes only in the step that ends a
\* run, after every profile has been processed; every run ends by writing the
\* store once, and the written store holds, for every profile that returned
\* rows, a record of that profile for each of its rows.
C20_SingleStoreCycle ==
  [][/\ runs' = runs => store' = store
     /\ runs' = runs + 1 =>
          /\ idx > Len(ProfileOrder)
          /\ outcome' = "written"
          /\ \A i \in Dom(results) :
               \A n \in Dom(results[i].frame) :
                 \E j \in Dom(LoadOld(store')) :
                   /\ LoadOld(store')[j].unique_key = results[i].frame[n].unique_key
                   /\ LoadOld(store')[j].profile = results[i].frame[n].profile]_vars

\* the positions of a text where "/l/" is immediately followed by a digit
IdPositions(url) ==
  {p \in 1..Len(url) : /\ p + 3 <= Len(url)
                       /\ SubSeq(url, p, p + 2) = <<"/", "l", "/">>
                       /\ url[p + 3] \in Digits}

\* C25: listing_id_from_url returns the first run of digits that immediately
\* follows "/l/", whatever follows the digits, and the URL itself when no
\* digit immediately follows "/l/".
C25_ListingIdFromUrl ==
  called =>
    IF IdPositions(fin) = {} THEN fout = fin
    ELSE LET p == CHOOSE q \in IdPositions(fin) : \A r \in IdPositions(fin) : q <= r
         IN fout = SubSeq(fin, p + 3, DigitsEnd(fin, p + 3))

\* the urls of the rows of a pass
UrlsOf(rows) == {rows[i].url : i \in 1..Len(rows)}

\* C21: auxiliary attribute correctness. For every baseline row and each
\* auxiliary pass, the combined row's boolean is true exactly when the same
\* listing (the same url) is in the output of that pass, also for a listing
\* without a numeric id.
C21_AuxiliaryCorrect ==
  called =>
    /\ Len(fout) = Len(fin.baseline)
    /\ \A i \in 1..Len(fin.baseline) :
         /\ fout[i].public_transport <=> fin.baseline[i].url \in UrlsOf(fin.public_transport)
         /\ fout[i].car_included <=> fin.baseline[i].url \in UrlsOf(fin.car_included)

\* C22: the baseline is authoritative. The combined table has exactly the
\* rows of the baseline pass, in baseline order and with baseline content,
\* whatever the auxiliary passes returned; an empty baseline gives an empty
\* table.
C22_BaselineAuthoritative ==
  called =>
    /\ Len(fout) = Len(fin.baseline)
    /\ \A i \in 1..Len(fin.baseline) :
         /\ fout[i].listing_id = fin.baseline[i].listing_id
         /\ fout[i].date_range = fin.baseline[i].date_range
         /\ fout[i].title = fin.baseline[i].title
         /\ fout[i].country = fin.baseline[i].country
         /\ fout[i].reviewing = fin.baseline[i].reviewing
         /\ fout[i].dog = fin.baseline[i].dog

\* C22 witness: the combiner returned two baseline rows while an auxiliary
\* pass had returned a listing the baseline does not hold
C22_Witness ==
  /\ called
  /\ Len(fout) = 2
  /\ \E u \in UrlsOf(fin.public_transport) : u \notin UrlsOf(fin.baseline)

\* C23: auxiliary matching ignores the date window. Two combined rows with
\* the same listing_id carry the same public_transport and car_included.
C23_AuxIgnoresWindow ==
  called =>
    \A i, j \in 1..Len(fout) :
      fout[i].listing_id = fout[j].listing_id =>
        /\ fout[i].public_transport = fout[j].public_transport
        /\ fout[i].car_included = fout[j].car_included

\* C23 witness: a listing is in the baseline under two date ranges, the
\* public_transport pass returned it under one of them, and both combined
\* rows are flagged
C23_Witness ==
  /\ called
  /\ Len(fin.public_transport) = 1
  /\ \E i, j \in 1..Len(fout) :
       /\ fout[i].listing_id = fout[j].listing_id
       /\ fout[i].date_range = fin.public_transport[1].date_range
       /\ fout[j].date_range /= fin.public_transport[1].date_range
       /\ fout[i].public_transport
       /\ fout[j].public_transport

\* the bookkeeping of the records of key k is that of a key of its own: new
\* to the store it is stamped now and flagged, known to the store it keeps
\* the first_seen of its own records and is not flagged
OwnBookkeeping(k) ==
  /\ RowsOf(NewRows, k) /= {}
  /\ \A j \in RowsOf(NewRows, k) :
       IF k \in KeySet(OldRows)
       THEN /\ NewRows[j].first_seen \in FirstSeenOf(OldRows, k)
            /\ ~NewRows[j].new_this_run
       ELSE /\ NewRows[j].first_seen = now
            /\ NewRows[j].last_changed = now
            /\ NewRows[j].new_this_run

C26_AlertEligible ==
  \A p \in Profiles :
    \A a \in Dom(alerts[p]) :
      /\ outcome = "written"
      /\ \E j \in Dom(NewRows) : NewRows[j] = alerts[p][a]
      /\ alerts[p][a].new_this_run
      /\ ~alerts[p][a].expired
      /\ alerts[p][a].first_seen = now
      /\ alerts[p][a].profile = p

\* C26 witness: a run alerted profile B about a new listing and alerted
\* nobody about the record of another profile it wrote back
C26_Witness ==
  /\ alerts["B"] /= <<>>
  /\ \E j \in Dom(NewRows) :
       /\ NewRows[j].profile = "A"
       /\ ~NewRows[j].new_this_run
       /\ \A p \in Profiles : \A a \in Dom(alerts[p]) : alerts[p][a] /= NewRows[j]

\* the "filters" of the call under way
CallFilters == Get(fin.profile_config, "filters", <<>>)

\* the row respects every bound max_pets sets for a known pet category
PetsOk(r) ==
  \A c \in PET_TYPES :
    ("max_pets" \in DOMAIN CallFilters /\ c \in DOMAIN CallFilters.max_pets) =>
      r[c] <= CallFilters.max_pets[c]

\* the row's country is not excluded
CountryOk(r) ==
  ~("excluded_countries" \in DOMAIN CallFilters
      /\ r.country \in CallFilters.excluded_countries)

\* min_days is set and positive
MinDaysSet == "min_days" \in DOMAIN CallFilters /\ CallFilters.min_days > 0

\* some accepted format parses both date texts of the row
PairParses(r) ==
  /\ r.date_from.kind = "text"
  /\ r.date_to.kind = "text"
  /\ r.date_from.fmts \cap r.date_to.fmts /= {}

\* the row is in the returned table
Kept(r) == \E j \in 1..Len(fout) : fout[j] = r

\* C27: max_pets. Every row apply_profile_filters returns respects every
\* bound of a known pet category (inclusive); when no other filter is
\* configured the rows returned are exactly the rows that do, and a category
\* that is not a known pet category constrains nothing.
C27_MaxPets ==
  called =>
    /\ \A j \in 1..Len(fout) : PetsOk(fout[j])
    /\ (~MinDaysSet /\ "excluded_countries" \notin DOMAIN CallFilters) =>
         fout = SelectSeq(fin.df, PetsOk)

\* C27 witness: under max_pets = {dog: 1} a row with two dogs was dropped and
\* a row with one dog was kept
C27_Witness ==
  /\ called
  /\ DOMAIN CallFilters = {"max_pets"}
  /\ DOMAIN CallFilters.max_pets = {"dog"}
  /\ Len(fin.df) = 2
  /\ fin.df[1].dog = 2
  /\ fin.df[2].dog = 1
  /\ fout = <<fin.df[2]>>

\* C28: excluded_countries. Without min_days the rows returned are exactly
\* the rows whose country is not excluded and that respect max_pets.
C28_ExcludedCountries ==
  (called /\ ~MinDaysSet) =>
    LET Both(r) == CountryOk(r) /\ PetsOk(r) IN fout = SelectSeq(fin.df, Both)

\* C28 witness: with a country excluded and a pet bound set, a row of the
\* excluded country was dropped and a row of another country was kept
C28_Witness ==
  /\ called
  /\ DOMAIN CallFilters = {"excluded_countries", "max_pets"}
  /\ Len(fin.df) = 2
  /\ ~CountryOk(fin.df[1])
  /\ PetsOk(fin.df[1])
  /\ fout = <<fin.df[2]>>

\* C29 as stated: a row is given duration 0 only when its dates are empty or
\* no accepted format parses them.
C29_ZeroOnlyUnparsable ==
  (called /\ MinDaysSet) =>
    \A i \in 1..Len(fin.df) : CalculateDays(fin.df[i]) = 0 => ~PairParses(fin.df[i])

\* the duration of a row: the days from date_from to date_to, both included,
\* when a format parses both; else 0
Duration(r) == IF PairParses(r) THEN r.date_to.day - r.date_from.day + 1 ELSE 0

\* C29: min_days with unparsable dates. A row whose dates are empty or fail
\* to parse under every accepted format is given duration 0, a parsable row
\* the number of days from date_from to date_to with both included (0 when
\* date_to is the day before date_from); among the rows the other filters
\* keep, a row is returned exactly when min_days is absent or 0 or its
\* duration is at least min_days.
C29_UnparsableDropped ==
  called =>
    \A i \in 1..Len(fin.df) :
      /\ MinDaysSet => CalculateDays(fin.df[i]) = Duration(fin.df[i])
      /\ (CountryOk(fin.df[i]) /\ PetsOk(fin.df[i])) =>
           (Kept(fin.df[i]) <=>
              (MinDaysSet => Duration(fin.df[i]) >= CallFilters.min_days))

\* C29 witness: with min_days = 1 a row with an unparsable date was dropped
\* and a row parsed under the second format was kept
C29_Witness ==
  /\ called
  /\ MinDaysSet
  /\ CallFilters.min_days = 1
  /\ Len(fin.df) = 2
  /\ ~PairParses(fin.df[1])
  /\ PairParses(fin.df[2])
  /\ Formats[1] \notin fin.df[2].date_from.fmts
  /\ fout = <<fin.df[2]>>

\* a is b with rows left out: the rows of a are rows of b, in the order of b
IsSubSeq(a, b) ==
  \E f \in [1..Len(a) -> 1..Len(b)] :
    /\ \A i, j \in 1..Len(a) : i < j => f[i] < f[j]
    /\ \A i \in 1..Len(a) : a[i] = b[f[i]]

\* C30: filter purity. The table returned holds rows of the input table, in
\* input order, each with the columns and contents it had; the input table
\* is what it was, and without filters the table returned equals the input.
C30_FilterPure ==
  called =>
    /\ IsSubSeq(fout, fin.df)
    /\ CallFilters = <<>> => fout = fin.df

\* C30 witness: with min_days set the first of two different rows was
\* dropped and the second came back as it went in
C30_Witness ==
  /\ called
  /\ MinDaysSet
  /\ Len(fin.df) = 2
  /\ fin.df[1] /= fin.df[2]
  /\ fout = <<fin.df[2]>>

\* C31: scope of change detection. After a run that wrote the store, a
\* record of a re-observed unique_key carries last_changed = now only if a
\* current row of the key differs from a persisted record of the key in a
\* content column or an auxiliary boolean; when they differ in the profile
\* only, every record of the key keeps a persisted last_changed.
C31_ChangeScope ==
  outcome = "written" =>
    \A k \in Reobserved :
      /\ (\E j \in RowsOf(NewRows, k) : NewRows[j].last_changed = now) =>
           \E i \in RowsOf(base_df, k), o \in RowsOf(OldRows, k) :
             ~ContentEqual(base_df[i], OldRows[o])
      /\ UnchangedCase(k) =>
           \A j \in RowsOf(NewRows, k) :
             \E o \in RowsOf(OldRows, k) :
               NewRows[j].last_changed = OldRows[o].last_changed

\* C31 witness: a key persisted for profile B came back with the same
\* content in the snapshot of profile A only; its record now belongs to A and
\* has the last_changed it had
C31_Witness ==
  /\ outcome = "written"
  /\ \E k \in Reobserved :
       /\ UnchangedCase(k)
       /\ \A o \in RowsOf(OldRows, k) : OldRows[o].profile = "B"
       /\ \A i \in RowsOf(base_df, k) : base_df[i].profile = "A"
       /\ \E j \in RowsOf(NewRows, k) : /\ NewRows[j].profile = "A"
                                        /\ NewRows[j].last_changed < now

\* a record and a row agree on the content columns, the auxiliary booleans,
\* the profile and the two timestamps
SameButFlags(a, b) ==
  /\ a.unique_key = b.unique_key
  /\ ContentEqual(a, b)
  /\ a.profile = b.profile
  /\ a.first_seen = b.first_seen
  /\ a.last_changed = b.last_changed

\* C35: absent identities are left untouched. After a run that wrote the
\* store, the records of a unique_key of the previous store that is absent
\* from the snapshot are, one for one, the persisted records with their
\* content columns, auxiliary booleans, profile, first_seen and last_changed.
C35_AbsentUntouched ==
  outcome = "written" =>
    \A k \in KeySet(OldRows) \ KeySet(base_df) :
      /\ Cardinality(RowsOf(NewRows, k)) = Cardinality(RowsOf(OldRows, k))
      /\ \A o \in RowsOf(OldRows, k) :
           \E j \in RowsOf(NewRows, k) : SameButFlags(NewRows[j], OldRows[o])
      /\ \A j \in RowsOf(NewRows, k) :
           \E o \in RowsOf(OldRows, k) : SameButFlags(NewRows[j], OldRows[o])

\* C35 witness: a run created a record for a new key and wrote the record of
\* a key it did not observe back with timestamps older than the run
C35_Witness ==
  /\ outcome = "written"
  /\ \E k \in KeySet(base_df) \ KeySet(OldRows) : k \in KeySet(NewRows)
  /\ \E k \in KeySet(OldRows) \ KeySet(base_df) :
       \E j \in RowsOf(NewRows, k) : /\ NewRows[j].last_changed < now
                                     /\ NewRows[j].first_seen < now

\* the characters the claim lists
ListedChars ==
  {"_", "*", "[", "]", "(", ")", Backtick, ">", "#", "+", "-", "=", "|", "{", "}", ".", "!"}

\* a text with a backslash before every listed character
RECURSIVE Prefixed(_)
Prefixed(t) ==
  IF t = <<>> THEN <<>>
  ELSE (IF Head(t) \in ListedChars THEN <<"\\", Head(t)>> ELSE <<Head(t)>>)
         \o Prefixed(Tail(t))

\* C32: escape_markdown returns a str with a backslash before every
\* occurrence of _ * [ ] ( ) ` > # + - = | { } . ! and every other
\* character as it was, and returns a value that is not a str unchanged.
C32_EscapeMarkdown ==
  called =>
    IF fin.is_str THEN fout = [is_str |-> TRUE, repr |-> Prefixed(fin.repr)]
    ELSE fout = fin

\* s is t without its leading and trailing spaces
IsStripOf(s, t) ==
  \E a, b \in 0..Len(t) :
    /\ a + b <= Len(t)
    /\ s = SubSeq(t, a + 1, Len(t) - b)
    /\ \A i \in 1..a : t[i] = " "
    /\ \A i \in (Len(t) - b + 1)..Len(t) : t[i] = " "
    /\ s /= <<>> => (s[1] /= " " /\ s[Len(s)] /= " ")

\* C33: split_location splits at the last comma only and returns the two
\* parts without their surrounding whitespace; a location without a comma
\* gives the location itself and the empty text.
C33_SplitLocation ==
  called =>
    IF \A i \in 1..Len(fin) : fin[i] /= ","
    THEN fout = <<fin, <<>>>>
    ELSE \E p \in 1..Len(fin) :
           /\ fin[p] = ","
           /\ \A q \in (p + 1)..Len(fin) : fin[q] /= ","
           /\ Len(fout) = 2
           /\ IsStripOf(fout[1], SubSeq(fin, 1, p - 1))
           /\ IsStripOf(fout[2], SubSeq(fin, p + 1, Len(fin)))

\* C33 witness: of two commas the first stayed in the town, and the space
\* before the second comma was removed
C33_Witness ==
  /\ called
  /\ fin = <<",", " ", ",", "b">>
  /\ fout = << <<",">>, <<"b">> >>

\* C34: normalize_pet returns a name without capitals and without spaces:
\* the trimmed lower-cased input with every space replaced by an underscore
\* when it holds no "small pet", and "small_pets" for "small pet"; applied to
\* its own result it returns that result.
C34_NormalizePet ==
  called =>
    /\ NormalizePet(fout) = fout
    /\ \A i \in 1..Len(fout) : fout[i] \notin {" ", "Small"}
    /\ LET low == [i \in 1..Len(fin) |-> IF fin[i] = "Small" THEN "small" ELSE fin[i]]
           t == CHOOSE x \in {SubSeq(low, a, b) : a \in 1..(Len(low) + 1), b \in 0..Len(low)} :
                  IsStripOf(x, low) IN
       /\ t = <<"small", " ", "pet">> => fout = <<"small", "_", "pet", "s">>
       /\ (\A i \in 1..(Len(t) - 2) : SubSeq(t, i, i + 2) /= <<"small", " ", "pet">>) =>
            /\ Len(fout) = Len(t)
            /\ \A i \in 1..Len(t) : fout[i] = IF t[i] = " " THEN "_" ELSE t[i]

\* C34 witness: " Small pet" became "small_pets"
C34_Witness ==
  /\ called
  /\ fin = <<" ", "Small", " ", "pet">>
  /\ fout = <<"small", "_", "pet", "s">>

\* the unique_keys in the alert batches of a run
AlertKeys(al) == UNION {KeySet(al[p]) : p \in Profiles}

\* C36: alert at most once. A run alerts a unique_key only if the store it
\* started from did not hold the key, and it records every key it alerts in
\* the store it writes; so a key alerted by one run is alerted by no later
\* run, and the run that alerts it is the first to observe it.
C36_AlertAtMostOnce ==
  [][runs' = runs + 1 =>
       \A k \in AlertKeys(alerts') :
         /\ k \notin KeySet(LoadOld(store))
         /\ k \in KeySet(LoadOld(store'))
         /\ k \in KeySet(base_df')
         /\ k \notin AlertKeys(alerts)]_vars

\* C36 witness: the second run observed again, in a row that passes the
\* filters of its profile, a key the first run had recorded as new, and did
\* not alert it
C36_Witness ==
  /\ outcome = "written"
  /\ now = 4
  /\ \E k \in Reobserved :
       /\ \E o \in RowsOf(OldRows, k) : OldRows[o].first_seen = 2 /\ OldRows[o].new_this_run
       /\ \E i \in RowsOf(base_df, k) : PassesFilters(base_df[i])
       /\ k \notin AlertKeys(alerts)

\* C38: min_days duration arithmetic. With min_days > 0, a row that the
\* other filters keep and whose two dates parse under one accepted format is
\* returned exactly when (date_to - date_from in days) + 1 >= min_days: both
\* the start and the end day count and the bound is inclusive.  A row whose
\* date_to precedes its date_from has a duration <= 0 and is not returned.
C38_MinDaysArithmetic ==
  (called /\ MinDaysSet) =>
    \A i \in 1..Len(fin.df) :
      LET r == fin.df[i]
          days == r.date_to.day - r.date_from.day IN
      (PairParses(r) /\ CountryOk(r) /\ PetsOk(r)) =>
        /\ Kept(r) <=> (days + 1 >= CallFilters.min_days)
        /\ days < 0 => (days + 1 <= 0 /\ ~Kept(r))

\* C38 witness: under min_days = 2 a stay from day 3 back to day 1 was
\* dropped and a stay from day 2 to day 3 was kept
C38_Witness ==
  /\ called
  /\ MinDaysSet
  /\ CallFilters.min_days = 2
  /\ Len(fin.df) = 2
  /\ PairParses(fin.df[1])
  /\ fin.df[1].date_from.day = 3
  /\ fin.df[1].date_to.day = 1
  /\ PairParses(fin.df[2])
  /\ fin.df[2].date_from.day = 2
  /\ fin.df[2].date_to.day = 3
  /\ fout = <<fin.df[2]>>

\* the keys of the rows a request carries
PostKeys(post) == {post.chunk.entries[j].row.unique_key : j \in 1..Len(post.chunk.entries)}

\* C37: persist before notify. While the alert loop runs the store already
\* holds the merged table of the run and is not written again: every key of
\* an alert batch, and every key a request carries, delivered or not, is in
\* the store; and no batch of a run holds a key that was in a batch of the
\* run before, whatever became of its requests.
C37_PersistBeforeNotify ==
  [][/\ pc = "notify" =>
          /\ store' = store
          /\ AlertKeys(alerts) \subseteq KeySet(LoadOld(store))
          /\ \A i \in 1..Len(posts') : PostKeys(posts'[i]) \subseteq KeySet(LoadOld(store))
     /\ pc' = "notify" => AlertKeys(alerts') \cap AlertKeys(alerts) = {}]_vars

\* C37 witness: the first run alerted a key and its request failed; the
\* second run found the key in the store, observed it again and did not
\* alert it
C37_Witness ==
  /\ pc = "notify"
  /\ now = 4
  /\ Len(posts) > 0
  /\ \A i \in 1..Len(posts) : posts[i].status /= "200"
  /\ \E i \in 1..Len(posts) :
       \E k \in PostKeys(posts[i]) : /\ k \in Reobserved
                                     /\ k \notin AlertKeys(alerts)

\* the entries of the chunks, one chunk after the other
RECURSIVE EntriesOf(_)
EntriesOf(chunks) ==
  IF chunks = <<>> THEN <<>> ELSE Head(chunks).entries \o EntriesOf(Tail(chunks))

\* C39: alert batching. format_telegram_message turns n rows into ceil(n/4)
\* chunks of one to four entries; the entries of the chunks, read in order,
\* are the rows in input order numbered 1, 2, ..., n; no rows, no chunk.
C39_AlertBatching ==
  called =>
    LET n == Len(fin.rows) IN
    /\ Len(fout) * ChunkSize >= n
    /\ (Len(fout) - 1) * ChunkSize < n
    /\ \A c \in 1..Len(fout) : Len(fout[c].entries) \in 1..ChunkSize
    /\ EntriesOf(fout) = [k \in 1..n |-> [idx |-> k, row |-> fin.rows[k]]]
    /\ n = 0 => fout = <<>>

\* C39 witness: five rows gave a chunk of four and a chunk of one whose
\* entry is numbered 5
C39_Witness ==
  /\ called
  /\ Len(fin.rows) = 5
  /\ Len(fout) = 2
  /\ Len(fout[1].entries) = 4
  /\ Len(fout[2].entries) = 1
  /\ fout[2].entries[1].idx = 5

\* the requests of profile p in a list of requests
PostsOf(ps, p) == LET Mine(x) == x.profile = p IN SelectSeq(ps, Mine)

\* C40: best-effort delivery. The alert loop never ends with an exception.
\* With credentials, the requests made for every profile with a non-empty
\* batch are its chunks, all of them, in order, whatever the outcome of any
\* request, and the profiles come in their order; without credentials no
\* request is made.
C40_BestEffort ==
  called =>
    /\ ~fout.raised
    /\ ~fin.credentials => fout.posts = <<>>
    /\ fin.credentials =>
         /\ \A p \in Profiles :
              LET mine == PostsOf(fout.posts, p)
                  n == Len(fin.profile_dfs[p]) IN
              /\ Len(mine) * ChunkSize >= n
              /\ (Len(mine) - 1) * ChunkSize < n
              /\ \A i \in 1..Len(mine) :
                   /\ mine[i].part = i
                   /\ mine[i].status = fin.responses[p][i]
                   /\ \A j \in 1..Len(mine[i].chunk.entries) :
                        mine[i].chunk.entries[j].idx = (i - 1) * ChunkSize + j
         /\ \A i, j \in 1..Len(fout.posts) :
              (i < j /\ fout.posts[i].profile /= fout.posts[j].profile) =>
                (fout.posts[i].profile = ProfileOrder[1]
                   /\ fout.posts[j].profile = ProfileOrder[2])

\* C40 witness: both chunks of the first profile failed, one with a status
\* and one with an exception, and the chunk of the second profile was sent
C40_Witness ==
  /\ called
  /\ fin.credentials
  /\ Len(fout.posts) = 3
  /\ fout.posts[1].profile = "A" /\ fout.posts[1].status = "400"
  /\ fout.posts[2].profile = "A" /\ fout.posts[2].status = "exception"
  /\ fout.posts[3].profile = "B" /\ fout.posts[3].status = "200"

====
